---- MODULE Spec2Model ----
(***************************************************************************)
(* A model of the two text rewriters of md-vscode:                         *)
(*   .pandoc-templates/md2tex.py     convert(), convert_inline()           *)
(*   .vscode/format-deep-research.py clean_extra_whitespace()              *)
(* Text is a sequence of characters, each a string (NUL and Backtick stand *)
(* for the two characters a TLA+ string cannot hold).  An output fragment  *)
(* (one element of the Python list `out`) is a record [tag, arg]: tag is   *)
(* the literal LaTeX text of the fragment and arg the computed text that   *)
(* the code splices into it (empty for a purely literal fragment).         *)
(* Three specifications: Spec runs convert() line by line, SpecInline      *)
(* applies convert_inline() to one argument, SpecClean runs the statements *)
(* of clean_extra_whitespace() on one argument.                            *)
(***************************************************************************)
EXTENDS Naturals, Sequences, FiniteSets, TLC

VARIABLES
    lines,        \* convert: the input lines consumed so far (lines[0..i-1])
    out,          \* convert: the list `out` of emitted fragments
    list_stack,   \* convert: stack of [kind, level], outermost first
    in_table,     \* convert: the in_table flag
    table_rows,   \* convert: the accumulated rows, each a sequence of cells
    pc,           \* convert: "loop" inside the while loop, "done" after it
    result,       \* convert: the returned text, empty until it returns
    text,         \* convert_inline: the argument
    inl,          \* convert_inline: its trace once applied, Idle before
    content,      \* clean_extra_whitespace: the text being rewritten
    cpc           \* clean_extra_whitespace: the next statement to run

vars ==
    <<lines, out, list_stack, in_table, table_rows, pc, result, text, inl, content, cpc>>

convertVars == <<lines, out, list_stack, in_table, table_rows, pc, result>>
inlineVars == <<text, inl>>
cleanVars == <<content, cpc>>

\* ----------------------------------------------------------------- bounds

\* convert: the number of input lines
MaxLines == 3
\* convert_inline: the number of lexical segments of the argument
MaxSegs == 4
\* clean_extra_whitespace: the number of characters of the argument
MaxChars == 5

\* ------------------------------------------------------------ text helpers

\* the characters chr(0) and chr(96), which a TLA+ string cannot hold
NUL == "NUL"
Backtick == "BACKTICK"
Whitespace == {" ", "\t"}
Digits == <<"0", "1", "2", "3", "4", "5", "6", "7", "8", "9">>

RECURSIVE lstrip(_)
lstrip(s) ==
    IF s # <<>> /\ Head(s) \in Whitespace THEN lstrip(Tail(s)) ELSE s

RECURSIVE rstrip(_)
rstrip(s) ==
    IF s # <<>> /\ s[Len(s)] \in Whitespace
    THEN rstrip(SubSeq(s, 1, Len(s) - 1))
    ELSE s

strip(s) == rstrip(lstrip(s))

\* pat occurs in s starting at index p
MatchAt(s, p, pat) ==
    /\ p >= 1
    /\ p + Len(pat) - 1 <= Len(s)
    /\ \A k \in 1..Len(pat) : s[p + k - 1] = pat[k]

\* the least q >= p at which pat occurs in s, 0 if none
RECURSIVE Find(_, _, _)
Find(s, p, pat) ==
    IF p + Len(pat) - 1 > Len(s) THEN 0
    ELSE IF MatchAt(s, p, pat) THEN p
    ELSE Find(s, p + 1, pat)

RECURSIVE str(_)
str(n) ==
    IF n < 10 THEN <<Digits[n + 1]>>
    ELSE str(n \div 10) \o <<Digits[(n % 10) + 1]>>

\* str.replace(pat, rep): every occurrence, left to right, non-overlapping
RECURSIVE replace(_, _, _)
replace(s, pat, rep) ==
    IF s = <<>> THEN <<>>
    ELSE IF MatchAt(s, 1, pat)
    THEN rep \o replace(SubSeq(s, Len(pat) + 1, Len(s)), pat, rep)
    ELSE <<Head(s)>> \o replace(Tail(s), pat, rep)

RECURSIVE Flatten(_)
Flatten(ss) == IF ss = <<>> THEN <<>> ELSE Head(ss) \o Flatten(Tail(ss))

\* ---------------------------------------------------------- convert_inline

\* f'\x00MATH{i}\x00'
sentinel(i) == <<NUL, "M", "A", "T", "H">> \o str(i) \o <<NUL>>

\* A delimited pattern  open body close : body is lazy, at least `min`
\* characters, none of them in `excl`.  kind "math" saves the whole match and
\* leaves a sentinel, kind "wrap" leaves  pre body }.
MathParen == [open |-> <<"\\", "(">>, close |-> <<"\\", ")">>, min |-> 0,
              excl |-> {}, kind |-> "math", pre |-> <<>>]
MathBracket == [open |-> <<"\\", "[">>, close |-> <<"\\", "]">>, min |-> 0,
                excl |-> {}, kind |-> "math", pre |-> <<>>]
MathDollars == [open |-> <<"$", "$">>, close |-> <<"$", "$">>, min |-> 0,
                excl |-> {}, kind |-> "math", pre |-> <<>>]
MathDollar == [open |-> <<"$">>, close |-> <<"$">>, min |-> 1,
               excl |-> {"$"}, kind |-> "math", pre |-> <<>>]
Textbf == <<"\\", "t", "e", "x", "t", "b", "f", "{">>
Textit == <<"\\", "t", "e", "x", "t", "i", "t", "{">>
Texttt == <<"\\", "t", "e", "x", "t", "t", "t", "{">>
BoldStar == [open |-> <<"*", "*">>, close |-> <<"*", "*">>, min |-> 1,
             excl |-> {}, kind |-> "wrap", pre |-> Textbf]
BoldUnder == [open |-> <<"_", "_">>, close |-> <<"_", "_">>, min |-> 1,
              excl |-> {}, kind |-> "wrap", pre |-> Textbf]
ItalicStar == [open |-> <<"*">>, close |-> <<"*">>, min |-> 1,
               excl |-> {}, kind |-> "wrap", pre |-> Textit]
ItalicUnder == [open |-> <<"_">>, close |-> <<"_">>, min |-> 1,
                excl |-> {}, kind |-> "wrap", pre |-> Textit]
Code == [open |-> <<Backtick>>, close |-> <<Backtick>>, min |-> 1,
         excl |-> {}, kind |-> "wrap", pre |-> Texttt]

\* the index at which the closing delimiter of a match starting at p begins,
\* 0 when the pattern does not match at p
CloseAt(s, p, rule) ==
    IF ~MatchAt(s, p, rule.open) THEN 0
    ELSE LET b == p + Len(rule.open)
             q == Find(s, b + rule.min, rule.close)
         IN  IF q = 0 THEN 0
             ELSE IF \E k \in b..(q - 1) : s[k] \in rule.excl THEN 0
             ELSE q

\* re.sub(pattern, repl, s) for a delimited pattern, scanning from index p;
\* math is the list math_placeholders so far
RECURSIVE re_sub(_, _, _, _)
re_sub(s, p, math, rule) ==
    IF p > Len(s) THEN [text |-> <<>>, math |-> math]
    ELSE LET q == CloseAt(s, p, rule) IN
         IF q = 0
         THEN LET r == re_sub(s, p + 1, math, rule)
              IN  [text |-> <<s[p]>> \o r.text, math |-> r.math]
         ELSE LET e == q + Len(rule.close) - 1
                  body == SubSeq(s, p + Len(rule.open), q - 1)
              IN  IF rule.kind = "math"
                  THEN LET r == re_sub(s, e + 1, Append(math, SubSeq(s, p, e)), rule)
                       IN  [text |-> sentinel(Len(math)) \o r.text, math |-> r.math]
                  ELSE LET r == re_sub(s, e + 1, math, rule)
                       IN  [text |-> rule.pre \o body \o <<"}">> \o r.text,
                            math |-> r.math]

\* the substitutions of convert_inline, in the order of its statements
MathRules == <<MathParen, MathBracket, MathDollars, MathDollar>>
FormatRules == <<BoldStar, BoldUnder, ItalicStar, ItalicUnder, Code>>

\* text = re.sub(...) for rules[i], rules[i+1], ... in turn; st is [text, math]
RECURSIVE apply_rules(_, _, _)
apply_rules(st, rules, i) ==
    IF i > Len(rules) THEN st
    ELSE apply_rules(re_sub(st.text, 1, st.math, rules[i]), rules, i + 1)

\* "Save inline and display math"
save_math(t) == apply_rules([text |-> t, math |-> <<>>], MathRules, 1)

\* "Bold", "Italic", "Code", "Escape %"
format_spans(t) ==
    replace(apply_rules([text |-> t, math |-> <<>>], FormatRules, 1).text,
            <<"%">>, <<"\\", "%">>)

\* for i, m in enumerate(math_placeholders): text = text.replace(sentinel, m)
RECURSIVE restore_math(_, _, _)
restore_math(t, math, i) ==
    IF i >= Len(math) THEN t
    ELSE restore_math(replace(t, sentinel(i), math[i + 1]), math, i + 1)

\* the whole of convert_inline, with its intermediate values
restore_trace(saved, fmt) ==
    [applied |-> TRUE,
     text |-> restore_math(fmt, saved.math, 0),
     math |-> saved.math,
     protected |-> saved.text,
     formatted |-> fmt]

format_trace(saved) == restore_trace(saved, format_spans(saved.text))

convert_inline_trace(t) == format_trace(save_math(t))

convert_inline(t) == convert_inline_trace(t).text

\* -------------------------------------------------- clean_extra_whitespace

\* the index just past the run of c that starts at p
RECURSIVE RunEnd(_, _, _)
RunEnd(s, p, c) ==
    IF p <= Len(s) /\ s[p] = c THEN RunEnd(s, p + 1, c) ELSE p

\* re.sub(r'\n{3,}', '\n\n', s)
RECURSIVE collapse_newlines(_, _)
collapse_newlines(s, p) ==
    IF p > Len(s) THEN <<>>
    ELSE IF s[p] = "\n"
    THEN LET e == RunEnd(s, p, "\n")
         IN  (IF e - p >= 3 THEN <<"\n", "\n">> ELSE SubSeq(s, p, e - 1))
             \o collapse_newlines(s, e)
    ELSE <<s[p]>> \o collapse_newlines(s, p + 1)

\* re.sub of ' +X' where X is a lookahead-like follower: a run of spaces is
\* dropped when the character after it is in `follow`, or, with atEnd, when
\* the run ends the text
RECURSIVE drop_spaces_before(_, _, _, _)
drop_spaces_before(s, p, follow, atEnd) ==
    IF p > Len(s) THEN <<>>
    ELSE IF s[p] = " "
    THEN LET e == RunEnd(s, p, " ")
             hit == IF e > Len(s) THEN atEnd ELSE s[e] \in follow
         IN  (IF hit THEN <<>> ELSE SubSeq(s, p, e - 1))
             \o drop_spaces_before(s, e, follow, atEnd)
    ELSE <<s[p]>> \o drop_spaces_before(s, p + 1, follow, atEnd)

Punctuation == {".", ",", ";", ":", "!", "?"}

strip_trailing_spaces(s) == drop_spaces_before(s, 1, {"\n"}, TRUE)
strip_spaces_before_punctuation(s) == drop_spaces_before(s, 1, Punctuation, FALSE)

clean_extra_whitespace(s) ==
    strip_spaces_before_punctuation(strip_trailing_spaces(collapse_newlines(s, 1)))

\* ------------------------------------------------- convert: classification

\* s.split(sep), for a one-character separator
RECURSIVE split(_, _)
split(s, sep) ==
    LET q == Find(s, 1, <<sep>>)
    IN  IF q = 0 THEN <<s>>
        ELSE <<SubSeq(s, 1, q - 1)>> \o split(SubSeq(s, q + 1, Len(s)), sep)

\* sep.join(parts)
RECURSIVE join(_, _)
join(parts, sep) ==
    IF parts = <<>> THEN <<>>
    ELSE IF Len(parts) = 1 THEN parts[1]
    ELSE parts[1] \o sep \o join(Tail(parts), sep)

get_indent(line) == Len(line) - Len(lstrip(line))

\* the number of leading characters of s that are in set
RECURSIVE LeadCount(_, _)
LeadCount(s, set) ==
    IF s # <<>> /\ Head(s) \in set THEN 1 + LeadCount(Tail(s), set) ELSE 0

\* line.strip().startswith('|') and line.strip().endswith('|')
IsTableRow(line) ==
    LET t == strip(line)
    IN  t # <<>> /\ t[1] = "|" /\ t[Len(t)] = "|"

\* split_cells without the [1:-1] slice: the text before the first and after
\* the last delimiter become cells
split_cells_unsliced(line) ==
    LET parts == split(strip(line), "|")
    IN  [k \in 1..Len(parts) |-> strip(parts[k])]

\* [c.strip() for c in line.strip()[1:-1].split('|')]
split_cells(line) ==
    LET t == strip(line)
        parts == split(SubSeq(t, 2, Len(t) - 1), "|")
    IN  [k \in 1..Len(parts) |-> strip(parts[k])]

\* all(re.match(r'^[-:]+$', c) for c in cells)
IsSeparator(cells) ==
    \A k \in 1..Len(cells) :
        cells[k] # <<>> /\ \A j \in 1..Len(cells[k]) : cells[k][j] \in {"-", ":"}

NoMatch == [ok |-> FALSE, level |-> 0, text |-> <<>>]

\* the tail  \s+(.+)$  of the header and list-item patterns, matched against
\* s: the run of whitespace is greedy but gives its last character back when
\* nothing else is left for (.+)
TailText(s) ==
    LET w == LeadCount(s, Whitespace)
        rest == SubSeq(s, w + 1, Len(s))
    IN  IF w >= 1 /\ rest # <<>> THEN [ok |-> TRUE, level |-> 0, text |-> rest]
        ELSE IF w >= 2 THEN [ok |-> TRUE, level |-> 0, text |-> <<s[w]>>]
        ELSE NoMatch

\* re.match(r'^(#{1,4})\s+(.+)$', line): level is len(m.group(1))
MatchHeader(line) ==
    LET n == LeadCount(line, {"#"})
        t == TailText(SubSeq(line, n + 1, Len(line)))
    IN  IF n >= 1 /\ n <= 4 /\ t.ok THEN [t EXCEPT !.level = n] ELSE NoMatch

\* re.match(r'^(\s*)[-*]\s+(.+)$', line): level is get_indent(line)
MatchUnordered(line) ==
    LET l == lstrip(line)
        t == TailText(Tail(l))
    IN  IF l # <<>> /\ l[1] \in {"-", "*"} /\ t.ok
        THEN [t EXCEPT !.level = get_indent(line)]
        ELSE NoMatch

\* re.match(r'^(\s*)\d+\.\s+(.+)$', line): level is get_indent(line)
MatchOrdered(line) ==
    LET l == lstrip(line)
        d == LeadCount(l, {Digits[k] : k \in 1..10})
        t == TailText(SubSeq(l, d + 2, Len(l)))
    IN  IF d >= 1 /\ Len(l) > d /\ l[d + 1] = "." /\ t.ok
        THEN [t EXCEPT !.level = get_indent(line)]
        ELSE NoMatch

\* re.match(r'^!\[.*?\]\((.+?)\)$', line.strip()): text is m.group(1)
MatchImage(line) ==
    LET t == strip(line)
        q == Find(t, 3, <<"]", "(">>)
    IN  IF /\ MatchAt(t, 1, <<"!", "[">>)
           /\ q # 0
           /\ q + 2 <= Len(t) - 1
           /\ t[Len(t)] = ")"
        THEN [ok |-> TRUE, level |-> 0, text |-> SubSeq(t, q + 2, Len(t) - 1)]
        ELSE NoMatch

\* the branch of the while loop that a line takes, in the order of the code
Classify(line) ==
    IF IsTableRow(line)
    THEN (IF IsSeparator(split_cells(line)) THEN "separator" ELSE "row")
    ELSE IF MatchHeader(line).ok THEN "header"
    ELSE IF MatchUnordered(line).ok THEN "ul"
    ELSE IF MatchOrdered(line).ok THEN "ol"
    ELSE IF MatchImage(line).ok THEN "image"
    ELSE IF strip(line) = <<>> THEN "blank"
    ELSE "paragraph"

\* ------------------------------------------------------ convert: fragments

Frag(tag, arg) == [tag |-> tag, arg |-> arg]
Lit(tag) == Frag(tag, <<>>)
Blank == Lit("")
BeginItemize == Lit("\\begin{itemize}")
BeginEnumerate == Lit("\\begin{enumerate}")
EndItemize == Lit("\\end{itemize}")
EndEnumerate == Lit("\\end{enumerate}")
Hline == Lit("\\hline")
Item(t) == Frag("\\item ", t)
Row(row) == Frag(" \\\\", join(row, <<" ", "&", " ">>))
Tabular(ncols) == Frag("\\begin{tabular}", [k \in 1..ncols |-> "l"])
Includegraphics(path) == Frag("\\includegraphics[width=\\textwidth]", path)
Paragraph(t) == Frag("", t)
HeaderCmd == <<"\\section", "\\subsection", "\\subsubsection", "\\paragraph">>

\* the text of one element of `out`
Render(f) ==
    IF f.tag = "" THEN f.arg
    ELSE IF f.tag = "\\item " THEN <<f.tag>> \o f.arg
    ELSE IF f.tag = " \\\\" THEN f.arg \o <<" ", "\\", "\\">>
    ELSE IF f.arg = <<>> /\ f.tag # "\\begin{tabular}" THEN <<f.tag>>
    ELSE <<f.tag, "{">> \o f.arg \o <<"}">>

\* ----------------------------------------------------- convert: operations
\* The closures of convert() act on the record s of its local variables
\* [out, list_stack, in_table, table_rows].

Top(stack) == stack[Len(stack)]
Pop(stack) == SubSeq(stack, 1, Len(stack) - 1)

\* end_fragment that ignores the kind of the popped entry
end_fragment_itemize_only(list_type) == EndItemize

\* the \end fragment for a popped entry
end_fragment(list_type) ==
    IF list_type = "ul" THEN EndItemize ELSE EndEnumerate

\* the loop condition of close_lists_to_level
closes_at(stack, target_indent) ==
    stack # <<>> /\ Top(stack).level >= target_indent

RECURSIVE close_lists_to_level(_, _)
close_lists_to_level(s, target_indent) ==
    IF closes_at(s.list_stack, target_indent)
    THEN LET rest == Pop(s.list_stack)
             o1 == Append(s.out, end_fragment(Top(s.list_stack).kind))
             o2 == IF rest = <<>> THEN Append(o1, Blank) ELSE o1
         IN  close_lists_to_level([s EXCEPT !.out = o2, !.list_stack = rest],
                                  target_indent)
    ELSE s

\* close_all_lists that stops above the outermost level
close_all_lists_above_zero(s) == close_lists_to_level(s, 1)

close_all_lists(s) == close_lists_to_level(s, 0)

\* the rows of the table block, with the rule after the header row
RECURSIVE table_body(_, _)
table_body(rows, i) ==
    IF i > Len(rows) THEN <<>>
    ELSE <<Row(rows[i])>> \o (IF i = 1 THEN <<Hline>> ELSE <<>>)
         \o table_body(rows, i + 1)

\* flush_table that takes the column count from the last row
flush_table_last_row_width(s) ==
    IF s.table_rows = <<>> THEN s
    ELSE [s EXCEPT
            !.out = s.out
                \o <<Blank, Lit("\\begin{table}[h]"), Lit("\\centering"),
                     Tabular(Len(s.table_rows[Len(s.table_rows)])), Hline>>
                \o table_body(s.table_rows, 1)
                \o <<Hline, Lit("\\end{tabular}"), Lit("\\end{table}"), Blank>>,
            !.table_rows = <<>>,
            !.in_table = FALSE]

flush_table(s) ==
    IF s.table_rows = <<>> THEN s
    ELSE [s EXCEPT
            !.out = s.out
                \o <<Blank, Lit("\\begin{table}[h]"), Lit("\\centering"),
                     Tabular(Len(s.table_rows[1])), Hline>>
                \o table_body(s.table_rows, 1)
                \o <<Hline, Lit("\\end{tabular}"), Lit("\\end{table}"), Blank>>,
            !.table_rows = <<>>,
            !.in_table = FALSE]

\* table_row that opens the table without closing the open lists
table_row_keeps_lists(s, cells) ==
    [[s EXCEPT !.in_table = TRUE] EXCEPT !.table_rows =
        Append(@, [k \in 1..Len(cells) |-> convert_inline(cells[k])])]

\* the non-separator part of the table-row branch
table_row(s, cells) ==
    [(IF ~s.in_table THEN [close_all_lists(s) EXCEPT !.in_table = TRUE] ELSE s)
        EXCEPT !.table_rows =
            Append(@, [k \in 1..Len(cells) |-> convert_inline(cells[k])])]

header(s, m) ==
    [close_all_lists(s) EXCEPT !.out =
        @ \o <<Blank, Blank, Frag(HeaderCmd[m.level], convert_inline(m.text))>>]

\* is_deeper with >= for >
is_deeper_or_equal(stack, indent) ==
    stack # <<>> /\ Top(stack).level >= indent

\* the loop condition of "Close deeper nested lists"
is_deeper(stack, indent) ==
    stack # <<>> /\ Top(stack).level > indent

RECURSIVE close_deeper(_, _)
close_deeper(s, indent) ==
    IF is_deeper(s.list_stack, indent)
    THEN close_deeper([s EXCEPT
                          !.out = Append(s.out, end_fragment(Top(s.list_stack).kind)),
                          !.list_stack = Pop(s.list_stack)],
                      indent)
    ELSE s

\* starts_new_list with >= for >
starts_new_list_or_equal(stack, indent) ==
    stack = <<>> \/ indent >= Top(stack).level

\* "Start new list if no list or this is nested deeper"
starts_new_list(stack, indent) ==
    stack = <<>> \/ indent > Top(stack).level

\* the \begin fragment for a pushed entry
begin_fragment(list_type) ==
    IF list_type = "ul" THEN BeginItemize ELSE BeginEnumerate

\* the body of "Start new list ...": the blank line, the \begin, the push
open_list(s, kind, indent) ==
    IF starts_new_list(s.list_stack, indent)
    THEN [s EXCEPT
            !.out = @ \o (IF s.list_stack = <<>> THEN <<Blank>> ELSE <<>>)
                      \o <<begin_fragment(kind)>>,
            !.list_stack = Append(@, [kind |-> kind, level |-> indent])]
    ELSE s

\* the unordered ("ul") and ordered ("ol") list branches
list_item(s, kind, m) ==
    [open_list(close_deeper(s, m.level), kind, m.level) EXCEPT
        !.out = Append(@, Item(convert_inline(m.text)))]

image(s, m) ==
    [close_all_lists(s) EXCEPT !.out =
        @ \o <<Blank, Lit("\\begin{figure}[h]"), Lit("\\centering"),
               Includegraphics(m.text), Lit("\\end{figure}"), Blank>>]

\* empty_line without the test for an open list
empty_line_always_emits(s) == [s EXCEPT !.out = Append(s.out, Blank)]

\* "Empty line - skip if inside a list"
empty_line(s) ==
    IF s.list_stack = <<>> THEN [s EXCEPT !.out = Append(s.out, Blank)] ELSE s

paragraph(s, line) ==
    [close_all_lists(s) EXCEPT !.out = Append(@, Paragraph(convert_inline(line)))]

\* the branches below the table-row test, for a line that is no table row
other_line(s, line) ==
    IF MatchHeader(line).ok THEN header(s, MatchHeader(line))
    ELSE IF MatchUnordered(line).ok THEN list_item(s, "ul", MatchUnordered(line))
    ELSE IF MatchOrdered(line).ok THEN list_item(s, "ol", MatchOrdered(line))
    ELSE IF MatchImage(line).ok THEN image(s, MatchImage(line))
    ELSE IF strip(line) = <<>> THEN empty_line(s)
    ELSE paragraph(s, line)

\* one iteration of the while loop
loop_body(s, line) ==
    IF IsTableRow(line)
    THEN (IF IsSeparator(split_cells(line)) THEN s
          ELSE table_row(s, split_cells(line)))
    ELSE other_line(IF s.in_table THEN flush_table(s) ELSE s, line)

\* what follows the loop: close_all_lists(); flush_table()
end_of_input(s) == flush_table(close_all_lists(s))

\* '\n'.join(out)
RECURSIVE join_out(_)
join_out(o) ==
    IF o = <<>> THEN <<>>
    ELSE IF Len(o) = 1 THEN Render(o[1])
    ELSE Render(o[1]) \o <<"\n">> \o join_out(Tail(o))

\* re.sub(r'\n{4,}', '\n\n\n', s)
RECURSIVE collapse_blank_lines(_, _)
collapse_blank_lines(s, p) ==
    IF p > Len(s) THEN <<>>
    ELSE IF s[p] = "\n"
    THEN LET e == RunEnd(s, p, "\n")
         IN  (IF e - p >= 4 THEN <<"\n", "\n", "\n">> ELSE SubSeq(s, p, e - 1))
             \o collapse_blank_lines(s, e)
    ELSE <<s[p]>> \o collapse_blank_lines(s, p + 1)

\* str.strip() of the joined text, where a line break is whitespace too
RECURSIVE strip_text(_)
strip_text(s) ==
    IF s # <<>> /\ Head(s) \in Whitespace \cup {"\n"} THEN strip_text(Tail(s))
    ELSE IF s # <<>> /\ s[Len(s)] \in Whitespace \cup {"\n"}
    THEN strip_text(SubSeq(s, 1, Len(s) - 1))
    ELSE s

postprocess(o) == strip_text(collapse_blank_lines(join_out(o), 1))

\* --------------------------------------------------------- convert: inputs

Indents == {0, 2, 4}
Spaces(n) == [k \in 1..n |-> " "]
ListBodies == {<<"-", " ", "a">>, <<"1", ".", " ", "a">>}
OtherLines ==
    { <<"|", "a", "|">>,
      <<"|", "a", "|", "%", "|">>,
      <<"|", "-", "|">>,
      <<"#", " ", "a">>,
      <<"!", "[", "]", "(", "p", ")">>,
      <<>>,
      <<" ", " ">>,
      <<"a", "%">> }
Lines == {Spaces(n) \o b : n \in Indents, b \in ListBodies} \cup OtherLines

\* ----------------------------------------------------- convert: the machine

Locals == [out |-> out, list_stack |-> list_stack,
           in_table |-> in_table, table_rows |-> table_rows]

Assign(s) ==
    /\ out' = s.out
    /\ list_stack' = s.list_stack
    /\ in_table' = s.in_table
    /\ table_rows' = s.table_rows

Idle == [applied |-> FALSE, text |-> <<>>, math |-> <<>>,
         protected |-> <<>>, formatted |-> <<>>]

ConvertIdle ==
    /\ lines = <<>>
    /\ out = <<>>
    /\ list_stack = <<>>
    /\ in_table = FALSE
    /\ table_rows = <<>>
    /\ pc = "idle"
    /\ result = <<>>
InlineIdle == text = <<>> /\ inl = Idle
CleanIdle == content = <<>> /\ cpc = "idle"

Init ==
    /\ lines = <<>>
    /\ out = <<>>
    /\ list_stack = <<>>
    /\ in_table = FALSE
    /\ table_rows = <<>>
    /\ pc = "loop"
    /\ result = <<>>
    /\ InlineIdle
    /\ CleanIdle

\* the body of  while i < len(lines)  for the next line of the input
ProcessLine ==
    /\ pc = "loop"
    /\ Len(lines) < MaxLines
    /\ \E line \in Lines :
        /\ lines' = Append(lines, line)
        /\ \E s \in {loop_body(Locals, line)} : Assign(s)
    /\ UNCHANGED <<pc, result, inlineVars, cleanVars>>

\* the input ends: the statements after the loop, and the return
Finish ==
    /\ pc = "loop"
    /\ Len(lines) >= 1
    /\ \E s \in {end_of_input(Locals)} :
        /\ Assign(s)
        /\ result' = postprocess(s.out)
    /\ pc' = "done"
    /\ UNCHANGED <<lines, inlineVars, cleanVars>>

Next == ProcessLine \/ Finish

Spec == Init /\ [][Next]_vars

\* ------------------------------------------- convert_inline: the machine

\* the lexical segments an argument of convert_inline is built from
InlineSegs ==
    { <<"\\", "(">>, <<"\\", ")">>, <<"\\", "[">>, <<"\\", "]">>,
      <<"$">>, <<"*">>, <<"_">>, <<Backtick>>, <<"%">>, <<"a">> }

RECURSIVE SegTexts(_)
SegTexts(n) ==
    IF n = 0 THEN {<<>>}
    ELSE SegTexts(n - 1) \cup {t \o g : t \in SegTexts(n - 1), g \in InlineSegs}

InitInline ==
    /\ text \in SegTexts(MaxSegs)
    /\ inl = Idle
    /\ ConvertIdle
    /\ CleanIdle

ApplyInline ==
    /\ ~inl.applied
    /\ inl' = convert_inline_trace(text)
    /\ UNCHANGED <<text, convertVars, cleanVars>>

NextInline == ApplyInline

SpecInline == InitInline /\ [][NextInline]_vars

\* ------------------------------------ clean_extra_whitespace: the machine

CleanChars == {"\n", " ", "a", "."}

RECURSIVE CharTexts(_)
CharTexts(n) ==
    IF n = 0 THEN {<<>>}
    ELSE CharTexts(n - 1) \cup {Append(t, c) : t \in CharTexts(n - 1), c \in CleanChars}

InitClean ==
    /\ content \in CharTexts(MaxChars)
    /\ cpc = "collapse"
    /\ ConvertIdle
    /\ InlineIdle

\* text = re.sub(r'\n{3,}', '\n\n', text)
CollapseNewlines ==
    /\ cpc = "collapse"
    /\ content' = collapse_newlines(content, 1)
    /\ cpc' = "trailing"
    /\ UNCHANGED <<convertVars, inlineVars>>

\* text = re.sub(r' +$', '', text, flags=re.MULTILINE)
StripTrailingSpaces ==
    /\ cpc = "trailing"
    /\ content' = strip_trailing_spaces(content)
    /\ cpc' = "punctuation"
    /\ UNCHANGED <<convertVars, inlineVars>>

\* text = re.sub(r' +([.,;:!?])', r'\1', text); return text
StripSpacesBeforePunctuation ==
    /\ cpc = "punctuation"
    /\ content' = strip_spaces_before_punctuation(content)
    /\ cpc' = "done"
    /\ UNCHANGED <<convertVars, inlineVars>>

NextClean == CollapseNewlines \/ StripTrailingSpaces \/ StripSpacesBeforePunctuation

SpecClean == InitClean /\ [][NextClean]_vars

\* ------------------------------------------------------ properties: helpers

LastLine == lines[Len(lines)]
Kinds(o) == [k \in 1..Len(o) |-> o[k].kind]

\* Reading the fragments o[1..n] as brackets: the kinds of the list
\* environments still open after them, or Mismatch when some \end met no
\* open \begin of its own kind.
Mismatch == <<"mismatch">>
RECURSIVE OpenAfter(_, _)
OpenAfter(o, n) ==
    IF n = 0 THEN <<>>
    ELSE LET before == OpenAfter(o, n - 1)
             closes == IF o[n] = EndItemize THEN "ul"
                       ELSE IF o[n] = EndEnumerate THEN "ol"
                       ELSE "none"
         IN  IF before = Mismatch THEN Mismatch
             ELSE IF o[n] = BeginItemize THEN Append(before, "ul")
             ELSE IF o[n] = BeginEnumerate THEN Append(before, "ol")
             ELSE IF closes = "none" THEN before
             ELSE IF before # <<>> /\ Top(before) = closes THEN Pop(before)
             ELSE Mismatch

IsListMarker(f) == f \in {BeginItemize, BeginEnumerate, EndItemize, EndEnumerate}
ListMarkers(o) == SelectSeq(o, IsListMarker)

\* every line is an unordered item and the indents strictly increase
IncreasingUnordered(ls) ==
    /\ Len(ls) >= 1
    /\ \A k \in 1..Len(ls) : Classify(ls[k]) = "ul"
    /\ \A k \in 1..(Len(ls) - 1) : get_indent(ls[k]) < get_indent(ls[k + 1])

\* the fragments that only a header, an image, a paragraph or a table emits
BlockTags ==
    {HeaderCmd[k] : k \in 1..Len(HeaderCmd)}
    \cup {"\\begin{figure}[h]", "\\includegraphics[width=\\textwidth]",
          "\\end{figure}", "\\centering", "\\begin{table}[h]", "\\begin{tabular}",
          "\\hline", " \\\\", "\\end{tabular}", "\\end{table}"}
IsBlockFragment(f) == f.tag \in BlockTags \/ (f.tag = "" /\ f.arg # <<>>)

\* The runs of consecutive table-row lines of ls, each as the sequence of its
\* non-separator lines: closed holds the runs that a later line ended (those
\* with at least one such line), open the run that ls ends with.
RECURSIVE Runs(_, _, _, _)
Runs(ls, i, open, closed) ==
    IF i > Len(ls) THEN [closed |-> closed, open |-> open]
    ELSE IF IsTableRow(ls[i])
    THEN Runs(ls, i + 1,
              IF IsSeparator(split_cells(ls[i])) THEN open ELSE Append(open, ls[i]),
              closed)
    ELSE Runs(ls, i + 1, <<>>, IF open = <<>> THEN closed ELSE Append(closed, open))

OpenRun == Runs(lines, 1, <<>>, <<>>).open
EndedRuns ==
    LET r == Runs(lines, 1, <<>>, <<>>)
    IN  IF pc = "done" /\ r.open # <<>> THEN Append(r.closed, r.open) ELSE r.closed

\* the cells of a table-row line, inline-formatted
FormattedCells(line) ==
    [j \in 1..Len(split_cells(line)) |-> convert_inline(split_cells(line)[j])]
RowsOf(run) == [k \in 1..Len(run) |-> FormattedCells(run[k])]

\* the table block the claim describes for the rows of one run
ExpectedBlock(rows) ==
    <<Blank, Lit("\\begin{table}[h]"), Lit("\\centering"),
      Tabular(Len(rows[1])), Hline, Row(rows[1]), Hline>>
    \o [k \in 1..(Len(rows) - 1) |-> Row(rows[k + 1])]
    \o <<Hline, Lit("\\end{tabular}"), Lit("\\end{table}"), Blank>>

\* the least k >= i with o[k] = f, 0 if none
RECURSIVE FindFragment(_, _, _)
FindFragment(o, i, f) ==
    IF i > Len(o) THEN 0
    ELSE IF o[i] = f THEN i
    ELSE FindFragment(o, i + 1, f)

\* the table blocks of o in order, each from the fragment before its
\* \begin{table} to the fragment after its \end{table}
RECURSIVE TableBlocks(_, _, _)
TableBlocks(o, i, acc) ==
    LET b == FindFragment(o, i, Lit("\\begin{table}[h]"))
        e == FindFragment(o, b, Lit("\\end{table}"))
    IN  IF b = 0 THEN acc
        ELSE IF e = 0 THEN Append(acc, SubSeq(o, b, Len(o)))
        ELSE TableBlocks(o, e + 1,
                         Append(acc, SubSeq(o, IF b > 1 THEN b - 1 ELSE b,
                                            IF e < Len(o) THEN e + 1 ELSE e)))

TableOnlyTags ==
    {"\\begin{table}[h]", "\\begin{tabular}", "\\hline", " \\\\",
     "\\end{tabular}", "\\end{table}"}
IsTableFragment(f) == f.tag \in TableOnlyTags

\* the number of cells of a table-row line, counted on the line itself: the
\* delimiters between its first and its last character, plus one
CellCount(line) ==
    LET t == strip(line)
    IN  Cardinality({k \in 2..(Len(t) - 1) : t[k] = "|"}) + 1

IsTabular(f) == f.tag = "\\begin{tabular}"
IsRow(f) == f.tag = " \\\\"
CellsOfRow(f) == Cardinality({k \in 1..Len(f.arg) : f.arg[k] = "&"}) + 1

\* the text of a list-item line after its marker
ItemText(line) ==
    IF Classify(line) = "ul" THEN MatchUnordered(line).text
    ELSE MatchOrdered(line).text

\* the step that processes one more line
LineStep == pc = "loop" /\ pc' = "loop" /\ Len(lines') = Len(lines) + 1
NewLine == lines'[Len(lines')]

\* ----------------------------------------------------- properties: convert

\* C1: the \begin and \end fragments of the list environments in `out` are
\* balanced and properly nested: every \end closes the innermost open \begin
\* of its own kind, the environments open after a line are those of the
\* stack, and none is open once the input has ended.  For unordered items at
\* strictly increasing indents there is one \begin{itemize} per item, and
\* after the end of input as many \end{itemize} after them.
C1_ListsBalanced ==
    /\ OpenAfter(out, Len(out)) # Mismatch
    /\ OpenAfter(out, Len(out)) = Kinds(list_stack)
    /\ pc = "done" => OpenAfter(out, Len(out)) = <<>>
    /\ IncreasingUnordered(lines) =>
        ListMarkers(out) =
            [k \in 1..Len(lines) |-> BeginItemize]
            \o (IF pc = "done" THEN [k \in 1..Len(lines) |-> EndItemize] ELSE <<>>)

\* the input "- a", "  - a", "    - a" has been converted
C1_Witness ==
    /\ pc = "done"
    /\ IncreasingUnordered(lines)
    /\ Len(lines) = 3
    /\ Len(SelectSeq(out, LAMBDA f : f = EndItemize)) = 3

\* C2: the levels of the list stack strictly increase from bottom to top.
C2_StackStrictlyIncreasing ==
    \A k \in 1..(Len(list_stack) - 1) :
        list_stack[k].level < list_stack[k + 1].level

\* three lists are open, one inside the other
C2_Witness == Len(list_stack) = 3

\* C3: after a header, image, paragraph or non-separator table-row line the
\* list stack is empty, and it is empty after the end of input; every
\* fragment of such a construct stands in `out` where no list environment is
\* open, that is after the \end of every list opened before it.
C3_ListsClosedBeforeBlocks ==
    /\ (Len(lines) >= 1
          /\ Classify(LastLine) \in {"header", "image", "paragraph", "row"})
       => list_stack = <<>>
    /\ pc = "done" => list_stack = <<>>
    /\ \A k \in 1..Len(out) :
          IsBlockFragment(out[k]) => OpenAfter(out, k) = <<>>

\* a header line has been processed right after a nested list item
C3_Witness ==
    /\ pc = "loop"
    /\ Len(lines) = 3
    /\ Classify(lines[1]) \in {"ul", "ol"}
    /\ Classify(lines[2]) \in {"ul", "ol"}
    /\ get_indent(lines[1]) < get_indent(lines[2])
    /\ Classify(lines[3]) = "header"

\* C4, as claimed: a list-item line pops every open entry whose level is at
\* least the line's indent unless the line continues that entry (same kind,
\* same level); so an item of the other kind at the indent of the top entry
\* pops it.
C4_SameIndentOtherKindCloses ==
    [][(LineStep /\ Classify(NewLine) \in {"ul", "ol"})
        => \A k \in 1..Len(list_stack) :
              (/\ get_indent(NewLine) <= list_stack[k].level
               /\ ~(/\ list_stack[k].kind = Classify(NewLine)
                    /\ list_stack[k].level = get_indent(NewLine)))
              => SubSeq(list_stack', 1, k) # SubSeq(list_stack, 1, k)]_vars

\* C4, amended: a list-item line pops exactly the open entries whose level
\* is strictly greater than the line's indent, emitting their \end fragments
\* innermost first; an entry at the line's indent stays open whatever its
\* kind, and the item is emitted inside it with no \begin.
C4_OnlyDeeperEntriesClose ==
    [][(LineStep /\ Classify(NewLine) \in {"ul", "ol"} /\ list_stack # <<>>)
        => LET indent == get_indent(NewLine)
               kept == Cardinality({k \in 1..Len(list_stack) :
                                        list_stack[k].level <= indent})
               popped == Len(list_stack) - kept
               ends == [j \in 1..popped |->
                           IF list_stack[Len(list_stack) + 1 - j].kind = "ul"
                           THEN EndItemize ELSE EndEnumerate]
           IN  /\ \A k \in 1..kept : list_stack[k].level <= indent
               /\ SubSeq(list_stack', 1, kept) = SubSeq(list_stack, 1, kept)
               /\ SubSeq(out', 1, Len(out) + popped) = out \o ends
               /\ (kept >= 1 /\ list_stack[kept].level = indent)
                  => /\ list_stack' = SubSeq(list_stack, 1, kept)
                     /\ out' = out \o ends
                                   \o <<Item(convert_inline(ItemText(NewLine)))>>]_vars

\* "- a" then "1. a": the ordered item was emitted inside the itemize, which
\* is still the only open list
C4_Witness ==
    /\ pc = "loop"
    /\ Len(lines) = 2
    /\ Classify(lines[1]) = "ul"
    /\ Classify(lines[2]) = "ol"
    /\ get_indent(lines[1]) = get_indent(lines[2])
    /\ Kinds(list_stack) = <<"ul">>
    /\ ListMarkers(out) = <<BeginItemize>>

\* C5: every run of consecutive table-row lines with at least one
\* non-separator row, once ended by another line or by the end of input, has
\* produced exactly one table block: its rows in input order without the
\* separator rows, a rule before the first row, one right after it, one after
\* the last row, and as many columns as the first row has cells.  `out` holds
\* no other table fragment; the accumulator is empty after the flush and
\* holds the rows of the run in progress before it.
C5_OneBlockPerRun ==
    /\ TableBlocks(out, 1, <<>>) =
          [k \in 1..Len(EndedRuns) |-> ExpectedBlock(RowsOf(EndedRuns[k]))]
    /\ Len(SelectSeq(out, IsTableFragment)) =
          Len(SelectSeq(Flatten(TableBlocks(out, 1, <<>>)), IsTableFragment))
    /\ (pc = "done" \/ (Len(lines) >= 1 /\ ~IsTableRow(LastLine)))
       => table_rows = <<>>
    /\ pc = "loop" => table_rows = RowsOf(OpenRun)

\* a header row, a separator row and a data row, then the end of input
C5_Witness ==
    /\ pc = "done"
    /\ Len(lines) = 3
    /\ Classify(lines[1]) = "row"
    /\ Classify(lines[2]) = "separator"
    /\ Classify(lines[3]) = "row"
    /\ Len(TableBlocks(out, 1, <<>>)) = 1
    /\ Len(SelectSeq(out, IsRow)) = 2

\* C6, as claimed: all rows in the accumulator have the cell count of the
\* first accumulated row.
C6_RowsSameWidth ==
    \A k \in 1..Len(table_rows) : Len(table_rows[k]) = Len(table_rows[1])

\* C6, amended: every row in the accumulator has the cell count of its own
\* input line, at least one; a table block takes its column count from the
\* first row of its run, and every row is emitted with its own cell count,
\* equal to the first row's or not.
C6_RowsKeepOwnWidth ==
    /\ pc = "loop" =>
          /\ Len(table_rows) = Len(OpenRun)
          /\ \A k \in 1..Len(table_rows) :
                Len(table_rows[k]) = CellCount(OpenRun[k]) /\ Len(table_rows[k]) >= 1
    /\ SelectSeq(out, IsTabular) =
          [k \in 1..Len(EndedRuns) |-> Tabular(CellCount(EndedRuns[k][1]))]
    /\ LET rows == SelectSeq(out, IsRow)
           src == Flatten(EndedRuns)
       IN  /\ Len(rows) = Len(src)
           /\ \A k \in 1..Len(rows) : CellsOfRow(rows[k]) = CellCount(src[k])

\* a one-cell row and a two-cell row are held in the same accumulator
C6_Witness ==
    /\ pc = "loop"
    /\ Len(table_rows) = 2
    /\ Len(table_rows[1]) # Len(table_rows[2])

\* C8, as claimed: a whitespace-only line emits nothing and leaves the stack
\* alone while a list is open, and emits exactly one blank fragment otherwise.
C8_BlankLineOneFragment ==
    [][(LineStep /\ Classify(NewLine) = "blank")
        => IF list_stack # <<>>
           THEN out' = out /\ list_stack' = list_stack
           ELSE out' = Append(out, Blank)]_vars

\* C8, amended: a whitespace-only line emits nothing and leaves the stack
\* alone while a list is open; otherwise it emits exactly one blank fragment,
\* after the block of the pending table when a table was being accumulated.
C8_BlankLineAfterPendingTable ==
    [][(LineStep /\ Classify(NewLine) = "blank")
        => IF list_stack # <<>>
           THEN out' = out /\ list_stack' = list_stack
           ELSE /\ list_stack' = <<>>
                /\ out' =
                      out
                      \o (IF in_table THEN ExpectedBlock(table_rows) ELSE <<>>)
                      \o <<Blank>>]_vars

\* a whitespace-only line has been processed while a list was open
C8_Witness ==
    /\ pc = "loop"
    /\ Len(lines) = 2
    /\ Classify(lines[1]) \in {"ul", "ol"}
    /\ Classify(lines[2]) = "blank"
    /\ list_stack # <<>>
    /\ Len(out) = 3

\* C10: between lines the in-table flag is true exactly when the accumulator
\* holds a row, and no list is open while it is true.
C10_TableFlagAndLists ==
    /\ in_table <=> table_rows # <<>>
    /\ in_table => list_stack = <<>>

\* a table row has been accumulated right after a list item
C10_Witness ==
    /\ pc = "loop"
    /\ Len(lines) = 2
    /\ Classify(lines[1]) \in {"ul", "ol"}
    /\ Classify(lines[2]) = "row"
    /\ in_table

\* ----------------------------------------------- properties: convert_inline

\* the text of the argument that the i-th saved span (from 0) was cut from:
\* the span with the sentinels of earlier spans put back
RECURSIVE OriginalSpan(_, _)
OriginalSpan(math, i) ==
    LET F[j \in 0..i] ==
            IF j = 0 THEN math[i + 1]
            ELSE replace(F[j - 1], sentinel(i - j), OriginalSpan(math, i - j))
    IN  F[i]

Occurs(pat, s) == Find(s, 1, pat) # 0

\* C7: once convert_inline has returned, no sentinel is left in the result
\* and every math span of the argument stands in it unchanged.
C7_MathRestoredExactly ==
    inl.applied =>
        /\ ~Occurs(<<NUL>>, inl.text)
        /\ \A i \in 0..(Len(inl.math) - 1) :
              Occurs(OriginalSpan(inl.math, i), inl.text)

\* --------------------------------------- properties: clean_extra_whitespace

\* C9: the result of clean_extra_whitespace holds no run of three or more
\* line breaks.
C9_NoThreeNewlines ==
    cpc = "done" => ~Occurs(<<"\n", "\n", "\n">>, content)

====
